---- MODULE Spec2Model ----
(***************************************************************************)
(* Model of the extended-persistence server (src/server.py) and of the     *)
(* SSH-tunnel proxy in front of it (src/app.py).                           *)
(*                                                                         *)
(* Numbers.  Coordinates are integers.  Every real the server computes is  *)
(* kept in hundredths (2500 stands for 25.0), so that the factors 1.5 and  *)
(* 1.15 of the infinity caps are exact.  A float handed back by the        *)
(* persistence engine is a pair <<kind, hundredths>> with kind "fin",      *)
(* "inf" or "nan", because the engine can report an infinite death.        *)
(***************************************************************************)
EXTENDS Integers, Sequences, FiniteSets, TLC

\* ------------------------------------------------------------------ bounds
MaxPoints == 3
MaxCenters == 2
MaxSpawns == 3

\* Sample inputs: two positions whose squared distance (25) is a perfect
\* square, so that both metrics are exact; two curve ids.
Positions == {[x |-> 0, y |-> 0], [x |-> 3, y |-> 4]}
CurveIds == {0, 1}
PointSet == [x : {0, 3}, y : {0, 4}, curveId : CurveIds]
Points == {p \in PointSet : [x |-> p.x, y |-> p.y] \in Positions}

\* ------------------------------------------------------------------ floats
Fin(v) == <<"fin", v>>
PInf == <<"inf", 0>>
NaN == <<"nan", 0>>
isinf(f) == f[1] = "inf"
isnan(f) == f[1] = "nan"
\* f <= g on floats: false as soon as a NaN is involved
FloatLE(f, g) ==
    /\ ~isnan(f) /\ ~isnan(g)
    /\ \/ isinf(g)
       \/ ~isinf(f) /\ f[2] <= g[2]

Max2(a, b) == IF a >= b THEN a ELSE b
Sqrt(n) == CHOOSE r \in 0..n : r * r = n

RECURSIVE Flatten(_)
Flatten(ss) == IF ss = <<>> THEN <<>> ELSE Head(ss) \o Flatten(Tail(ss))

\* ---------------------------------------------------------- DistanceEngine
SqDist(p, c) == (p.x - c.x) * (p.x - c.x) + (p.y - c.y) * (p.y - c.y)

\* distances of compute_persistence: one value per point, 0-based
distances(pts, center, use_sq) ==
    [i \in 0..(Len(pts) - 1) |->
        IF use_sq THEN 100 * SqDist(pts[i + 1], center)
                  ELSE 100 * Sqrt(SqDist(pts[i + 1], center))]

\* all_distances of compute_vineyard: shape (num_centers, n), 0-based
all_distances(pts, cs, use_sq) ==
    [c \in 0..(Len(cs) - 1) |->
        [i \in 0..(Len(pts) - 1) |->
            LET d2 == (pts[i + 1].x - cs[c + 1].x) * (pts[i + 1].x - cs[c + 1].x)
                      + (pts[i + 1].y - cs[c + 1].y) * (pts[i + 1].y - cs[c + 1].y)
            IN  IF use_sq THEN 100 * d2 ELSE 100 * Sqrt(d2)]]

ArrMax(arr) == CHOOSE m \in {arr[i] : i \in DOMAIN arr} : \A i \in DOMAIN arr : arr[i] <= m
ArrMin(arr) == CHOOSE m \in {arr[i] : i \in DOMAIN arr} : \A i \in DOMAIN arr : m <= arr[i]
MatMax(mat) == ArrMax([c \in DOMAIN mat |-> ArrMax(mat[c])])

\* ------------------------------------------------------------- curve groups
\* curve_groups: the dict curveId -> [indices], kept as the sequence of its
\* items in insertion (first-seen) order
RECURSIVE group_points(_, _, _)
group_points(pts, i, groups) ==
    IF i > Len(pts) THEN groups
    ELSE LET cid == pts[i].curveId
             at == {g \in DOMAIN groups : groups[g].cid = cid}
         IN  IF at = {}
             THEN group_points(pts, i + 1,
                      Append(groups, [cid |-> cid, indices |-> <<i - 1>>]))
             ELSE LET g == CHOOSE h \in at : TRUE
                  IN  group_points(pts, i + 1,
                          [groups EXCEPT ![g].indices = Append(@, i - 1)])

curve_groups_of(pts) == group_points(pts, 1, <<>>)

\* ------------------------------------------------------ CurveComplexBuilder
\* SimplexTree.insert: the vertices of the simplex are sorted and made
\* unique; the simplex and its faces are added with the given filtration,
\* and one that is already there keeps the lower of the two values.
insert(tree, simplex, filtration) ==
    LET verts == {simplex[i] : i \in DOMAIN simplex}
        faces == (SUBSET verts) \ {{}}
    IN  [s \in (DOMAIN tree) \cup faces |->
            IF s \in faces
            THEN IF s \in DOMAIN tree /\ tree[s] <= filtration
                 THEN tree[s] ELSE filtration
            ELSE tree[s]]

EmptyTree == [s \in {} |-> 0]

RECURSIVE insert_vertices(_, _, _, _)
insert_vertices(tree, i, n, dist) ==
    IF i >= n THEN tree
    ELSE insert_vertices(insert(tree, <<i>>, dist[i]), i + 1, n, dist)

\* variant: the edge takes the lower of its endpoints' values
EdgeFiltrationMin(dist, v1, v2) == IF dist[v1] <= dist[v2] THEN dist[v1] ELSE dist[v2]

EdgeFiltration(dist, v1, v2) == Max2(dist[v1], dist[v2])

\* variant: a path, the closing edge from the last point to the first left out
RECURSIVE insert_cycle_open(_, _, _, _)
insert_cycle_open(tree, indices, j, dist) ==
    LET m == Len(indices) IN
    IF j >= m - 1 THEN tree
    ELSE LET v1 == indices[j + 1]
             v2 == indices[j + 2]
         IN  insert_cycle_open(insert(tree, <<v1, v2>>, Max2(dist[v1], dist[v2])),
                               indices, j + 1, dist)

RECURSIVE insert_cycle(_, _, _, _)
insert_cycle(tree, indices, j, dist) ==
    LET m == Len(indices) IN
    IF j >= m THEN tree
    ELSE LET v1 == indices[j + 1]
             v2 == indices[((j + 1) % m) + 1]
         IN  insert_cycle(insert(tree, <<v1, v2>>, EdgeFiltration(dist, v1, v2)),
                          indices, j + 1, dist)

RECURSIVE insert_edges(_, _, _, _)
insert_edges(tree, groups, g, dist) ==
    IF g > Len(groups) THEN tree
    ELSE insert_edges(insert_cycle(tree, groups[g].indices, 0, dist),
                      groups, g + 1, dist)

build_simplex_tree(n, dist, groups) ==
    insert_edges(insert_vertices(EmptyTree, 0, n, dist), groups, 1, dist)

Vertices(tree) == {s \in DOMAIN tree : Cardinality(s) = 1}
Edges(tree) == {s \in DOMAIN tree : Cardinality(s) = 2}

\* -------------------------------------------------------- PersistenceEngine
\* The engine is an external library: st.extend_filtration() followed by
\* st.extended_persistence().  It is modelled by its contract: four lists
\* (Ordinary, Relative, Extended+, Extended-) of classes (dim, (birth,
\* death)) whose finite values are filtration values of the complex, and a
\* non-empty complex always has its essential component class.  Which
\* lists the classes land in is the engine's business: the behaviour is
\* drawn once per request, so the engine is a function of the complex.
Class(dim, birth, death) == [dim |-> dim, birth |-> birth, death |-> death]

Behaviours == [essential : {"inf", "fin"}, loop : {"pairs", "ext"}, fault : {"none"}]
FaultyBehaviours == [essential : {"inf", "fin"}, loop : {"ext"}, fault : {"dim", "nan"}]

extended_persistence(tree, beh) ==
    LET f == [v \in Vertices(tree) |-> tree[v]]
        lo == ArrMin(f)
        hi == ArrMax(f)
        ordinary ==
            (IF beh.essential = "inf" THEN <<Class(0, Fin(lo), PInf)>> ELSE <<>>)
            \o (IF beh.loop = "pairs" THEN <<Class(1, Fin(hi), Fin(hi))>> ELSE <<>>)
            \o (IF beh.fault = "dim" THEN <<Class(2, Fin(lo), Fin(hi))>> ELSE <<>>)
        relative ==
            (IF beh.loop = "pairs"
             THEN <<Class(0, Fin(hi), Fin(lo)), Class(1, Fin(hi), Fin(lo))>>
             ELSE <<>>)
            \o (IF beh.fault = "nan" THEN <<Class(0, NaN, NaN)>> ELSE <<>>)
        extended_plus ==
            IF beh.essential = "fin" THEN <<Class(0, Fin(lo), Fin(hi))>> ELSE <<>>
        extended_minus ==
            IF beh.loop = "ext" THEN <<Class(1, Fin(hi), Fin(lo))>> ELSE <<>>
    IN  <<ordinary, relative, extended_plus, extended_minus>>

\* ---------------------------------------------------------- DiagramAggregator
BucketNames == {"ord0", "ord1", "rel0", "rel1", "ext0", "ext1"}
EmptyBuckets == [b \in BucketNames |-> <<>>]

\* the bucket chosen by the if/elif/else on dgm_idx (0-based) and dim
BucketOf(dgm_idx, dim) ==
    IF dgm_idx = 0 THEN (IF dim = 0 THEN "ord0" ELSE "ord1")
    ELSE IF dgm_idx = 1 THEN (IF dim = 0 THEN "rel0" ELSE "rel1")
    ELSE (IF dim = 0 THEN "ext0" ELSE "ext1")

\* enumerate(dgms) flattened: the classes in visiting order, each with the
\* 0-based index of its list
Enumerated(dgms) ==
    Flatten([k \in DOMAIN dgms |->
        [c \in DOMAIN dgms[k] |-> [dgm_idx |-> k - 1, cls |-> dgms[k][c]]]])

\* the value reported for a death (float(death) if not is_inf else cap)
ReportedDeath(death, cap) == IF isinf(death) THEN Fin(cap) ELSE death

\* variant: the else branch taken for Extended+ only, Extended- classes lost
RECURSIVE process_classes_drop(_, _, _)
process_classes_drop(items, buckets, infinity_cap0) ==
    IF items = <<>> THEN buckets
    ELSE LET it == Head(items)
             d == IF isinf(it.cls.death) THEN Fin(infinity_cap0) ELSE it.cls.death
             name == IF it.dgm_idx = 0 THEN (IF it.cls.dim = 0 THEN "ord0" ELSE "ord1")
                     ELSE IF it.dgm_idx = 1 THEN (IF it.cls.dim = 0 THEN "rel0" ELSE "rel1")
                     ELSE (IF it.cls.dim = 0 THEN "ext0" ELSE "ext1")
         IN  IF it.dgm_idx = 3
             THEN process_classes_drop(Tail(items), buckets, infinity_cap0)
             ELSE process_classes_drop(Tail(items),
                      [buckets EXCEPT ![name] = Append(@, <<it.cls.birth, d>>)],
                      infinity_cap0)

RECURSIVE process_classes(_, _, _)
process_classes(items, buckets, infinity_cap0) ==
    IF items = <<>> THEN buckets
    ELSE LET it == Head(items)
             d == ReportedDeath(it.cls.death, infinity_cap0)
             b == it.cls.birth
             name == BucketOf(it.dgm_idx, it.cls.dim)
         IN  process_classes(Tail(items),
                 [buckets EXCEPT ![name] = Append(@, <<b, d>>)], infinity_cap0)

process_extended_persistence(dgms, infinity_cap0) ==
    process_classes(Enumerated(dgms), EmptyBuckets, infinity_cap0)

SingleCap(r_max0) == (r_max0 * 150) \div 100
VineyardCap(max_dist_global) == (max_dist_global * 115) \div 100

\* ================================================================== state
VARIABLES
    mode,           \* "single" (/persistence) or "vineyard" (/vineyard)
    points,         \* data['points']
    centers,        \* data['centers'], or <<data['center']>> in single mode
    use_squared,    \* data.get('use_squared_distance', True)
    engine,         \* the behaviour of the persistence engine for this request
    pc,             \* position of the request handler
    ci,             \* loop index of compute_vineyard
    st,             \* the simplex tree built last
    dgms,           \* the engine's result for st
    infinity_cap,   \* compute_persistence: r_max * 1.5
    infinityY,      \* compute_vineyard: max_dist_global * 1.15
    acc,            \* ord0_all .. ext1_all of compute_vineyard
    response,       \* the response returned, status 0 while there is none
    built,          \* number of calls of build_simplex_tree
    engineLog       \* one record per engine invocation: the complex and the result

reqVars == <<mode, points, centers, use_squared, engine, pc, ci, st, dgms,
             infinity_cap, infinityY, acc, response, built, engineLog>>

\* src/app.py: the module globals and the request threads
VARIABLES
    tunnel_process, \* 0 for None, else the id of the Popen object recorded
    tunnel_lock,    \* 0 when free, else the thread holding it
    key_file_path,  \* TRUE when setup_ssh_key wrote the key file
    G5K_USER,       \* TRUE when the environment sets it
    alive,          \* the ssh processes spawned so far that have not exited
    spawned,        \* number of ssh processes spawned so far
    tpc,            \* position of each request thread
    ctx             \* what each thread called the tunnel functions for

tunVars == <<tunnel_process, tunnel_lock, key_file_path, G5K_USER, alive,
             spawned, tpc, ctx>>

SeqsUpTo(S, lo, hi) == UNION {[1..k -> S] : k \in lo..hi}

NoResponse == [status |-> 0]

RequestInit(behaviours) ==
    /\ mode \in {"single", "vineyard"}
    /\ points \in SeqsUpTo(Points, 0, MaxPoints)
    /\ centers \in IF mode = "single" THEN SeqsUpTo(Positions, 1, 1)
                   ELSE SeqsUpTo(Positions, 0, MaxCenters)
    /\ use_squared \in BOOLEAN
    /\ engine \in behaviours
    /\ pc = "recv"
    /\ ci = 0
    /\ st = EmptyTree
    /\ dgms = <<>>
    /\ infinity_cap = 0
    /\ infinityY = 0
    /\ acc = EmptyBuckets
    /\ response = NoResponse
    /\ built = 0
    /\ engineLog = <<>>

n_points == Len(points)
num_centers == Len(centers)

Respond(resp) ==
    /\ response' = resp
    /\ pc' = "done"

\* the except clause of compute_persistence: the error only, no local
ErrorResponse(e) == [status |-> 500, error |-> e]

\* variant: the error response carries what the loop accumulated so far
V_ErrorResponsePartial(e) ==
    [status |-> 500, error |-> e, trace |-> "traceback",
     ord0 |-> acc.ord0, ord1 |-> acc.ord1, rel0 |-> acc.rel0,
     rel1 |-> acc.rel1, ext0 |-> acc.ext0, ext1 |-> acc.ext1]

\* the except clause of compute_vineyard adds the traceback
V_ErrorResponse(e) == [status |-> 500, error |-> e, trace |-> "traceback"]

\* variant: the threshold one too low
TooFewPointsTwo(n) == n < 2

\* if n < 3: return 400
TooFewPoints(n) == n < 3

\* ------------------------------------------------------ compute_persistence
P_Reject ==
    /\ pc = "recv" /\ mode = "single"
    /\ TooFewPoints(n_points)
    /\ Respond([status |-> 400, error |-> "Need at least 3 points"])
    /\ UNCHANGED tunVars
    /\ UNCHANGED <<mode, points, centers, use_squared, engine, ci, st, dgms,
                   infinity_cap, infinityY, acc, built, engineLog>>

P_Prepare ==
    /\ pc = "recv" /\ mode = "single"
    /\ ~TooFewPoints(n_points)
    /\ LET r_max == ArrMax(distances(points, centers[1], use_squared))
       IN  infinity_cap' = SingleCap(r_max)
    /\ pc' = "build"
    /\ UNCHANGED tunVars
    /\ UNCHANGED <<mode, points, centers, use_squared, engine, ci, st, dgms,
                   infinityY, acc, response, built, engineLog>>

P_Build ==
    /\ pc = "build" /\ mode = "single"
    /\ st' = build_simplex_tree(n_points, distances(points, centers[1], use_squared),
                                curve_groups_of(points))
    /\ built' = built + 1
    /\ pc' = "engine"
    /\ UNCHANGED tunVars
    /\ UNCHANGED <<mode, points, centers, use_squared, engine, ci, dgms,
                   infinity_cap, infinityY, acc, response, engineLog>>

\* first two lines of process_extended_persistence
P_Engine ==
    /\ pc = "engine" /\ mode = "single"
    /\ dgms' = extended_persistence(st, engine)
    /\ engineLog' = Append(engineLog, [st |-> st, dgms |-> dgms'])
    /\ pc' = "aggregate"
    /\ UNCHANGED tunVars
    /\ UNCHANGED <<mode, points, centers, use_squared, engine, ci, st,
                   infinity_cap, infinityY, acc, response, built>>

\* the engine raises: the handler's except clause answers
P_EngineRaises ==
    /\ pc = "engine" /\ mode = "single"
    /\ Respond(ErrorResponse("engine"))
    /\ UNCHANGED tunVars
    /\ UNCHANGED <<mode, points, centers, use_squared, engine, ci, st, dgms,
                   infinity_cap, infinityY, acc, built, engineLog>>

P_Respond ==
    /\ pc = "aggregate" /\ mode = "single"
    /\ LET dist == distances(points, centers[1], use_squared)
           b == process_extended_persistence(dgms, infinity_cap)
       IN  Respond([status |-> 200,
                    ord0 |-> b.ord0, ord1 |-> b.ord1,
                    rel0 |-> b.rel0, rel1 |-> b.rel1,
                    ext0 |-> b.ext0, ext1 |-> b.ext1,
                    r_min |-> ArrMin(dist), r_max |-> ArrMax(dist)])
    /\ UNCHANGED tunVars
    /\ UNCHANGED <<mode, points, centers, use_squared, engine, ci, st, dgms,
                   infinity_cap, infinityY, acc, built, engineLog>>

\* --------------------------------------------------------- compute_vineyard
V_Reject ==
    /\ pc = "recv" /\ mode = "vineyard"
    /\ TooFewPoints(n_points)
    /\ Respond([status |-> 400, error |-> "Need at least 3 points"])
    /\ UNCHANGED tunVars
    /\ UNCHANGED <<mode, points, centers, use_squared, engine, ci, st, dgms,
                   infinity_cap, infinityY, acc, built, engineLog>>

\* centers == []: the indexing of centers_arr raises IndexError
V_NoCenters ==
    /\ pc = "recv" /\ mode = "vineyard"
    /\ ~TooFewPoints(n_points)
    /\ num_centers = 0
    /\ Respond(V_ErrorResponse("too many indices for array"))
    /\ UNCHANGED tunVars
    /\ UNCHANGED <<mode, points, centers, use_squared, engine, ci, st, dgms,
                   infinity_cap, infinityY, acc, built, engineLog>>

V_Prepare ==
    /\ pc = "recv" /\ mode = "vineyard"
    /\ ~TooFewPoints(n_points)
    /\ num_centers > 0
    /\ LET max_dist_global == MatMax(all_distances(points, centers, use_squared))
       IN  infinityY' = VineyardCap(max_dist_global)
    /\ acc' = EmptyBuckets
    /\ ci' = 0
    /\ pc' = "loop"
    /\ UNCHANGED tunVars
    /\ UNCHANGED <<mode, points, centers, use_squared, engine, st, dgms,
                   infinity_cap, response, built, engineLog>>

\* variant: every iteration reads the first row
RowZero(c) == all_distances(points, centers, use_squared)[0]

\* the row of all_distances the iteration for center c reads
Row(c) == all_distances(points, centers, use_squared)[c]

\* the per-class body of the loop of compute_vineyard
TypeOf(dgm_idx) == <<"ord", "rel", "ext", "ext">>[dgm_idx + 1]

\* variant: each center caps with the maximum of its own row of distances
VineyardEntryLocalCap(it, center_idx, cap) ==
    [birth |-> it.cls.birth,
     death |-> IF isinf(it.cls.death)
               THEN Fin(VineyardCap(ArrMax(Row(center_idx)))) ELSE it.cls.death,
     centerIdx |-> center_idx,
     isInfinite |-> isinf(it.cls.death),
     type |-> <<"ord", "rel", "ext", "ext">>[it.dgm_idx + 1]]

\* the entry compute_vineyard builds for one class of center ci
VineyardEntry(it, center_idx, cap) ==
    [birth |-> it.cls.birth,
     death |-> IF isinf(it.cls.death) THEN Fin(cap) ELSE it.cls.death,
     centerIdx |-> center_idx,
     isInfinite |-> isinf(it.cls.death),
     type |-> TypeOf(it.dgm_idx)]

VineyardBucketOf(dgm_idx, dim) ==
    IF dgm_idx = 0 THEN (IF dim = 0 THEN "ord0" ELSE "ord1")
    ELSE IF dgm_idx = 1 THEN (IF dim = 0 THEN "rel0" ELSE "rel1")
    ELSE (IF dim = 0 THEN "ext0" ELSE "ext1")

RECURSIVE process_diagrams(_, _, _, _)
process_diagrams(items, buckets, center_idx, cap) ==
    IF items = <<>> THEN buckets
    ELSE LET it == Head(items)
             name == VineyardBucketOf(it.dgm_idx, it.cls.dim)
         IN  process_diagrams(Tail(items),
                 [buckets EXCEPT ![name] = Append(@, VineyardEntry(it, center_idx, cap))],
                 center_idx, cap)

V_Build ==
    /\ pc = "loop" /\ mode = "vineyard"
    /\ ci < num_centers
    /\ st' = build_simplex_tree(n_points, Row(ci), curve_groups_of(points))
    /\ built' = built + 1
    /\ pc' = "engine"
    /\ UNCHANGED tunVars
    /\ UNCHANGED <<mode, points, centers, use_squared, engine, ci, dgms,
                   infinity_cap, infinityY, acc, response, engineLog>>

V_Engine ==
    /\ pc = "engine" /\ mode = "vineyard"
    /\ dgms' = extended_persistence(st, engine)
    /\ engineLog' = Append(engineLog, [st |-> st, dgms |-> dgms'])
    /\ pc' = "process"
    /\ UNCHANGED tunVars
    /\ UNCHANGED <<mode, points, centers, use_squared, engine, ci, st,
                   infinity_cap, infinityY, acc, response, built>>

V_EngineRaises ==
    /\ pc = "engine" /\ mode = "vineyard"
    /\ Respond(V_ErrorResponse("engine"))
    /\ UNCHANGED tunVars
    /\ UNCHANGED <<mode, points, centers, use_squared, engine, ci, st, dgms,
                   infinity_cap, infinityY, acc, built, engineLog>>

V_Process ==
    /\ pc = "process" /\ mode = "vineyard"
    /\ acc' = process_diagrams(Enumerated(dgms), acc, ci, infinityY)
    /\ ci' = ci + 1
    /\ pc' = "loop"
    /\ UNCHANGED tunVars
    /\ UNCHANGED <<mode, points, centers, use_squared, engine, st, dgms,
                   infinity_cap, infinityY, response, built, engineLog>>

V_Respond ==
    /\ pc = "loop" /\ mode = "vineyard"
    /\ ~(ci < num_centers)
    /\ Respond([status |-> 200,
                ord0 |-> acc.ord0, ord1 |-> acc.ord1,
                rel0 |-> acc.rel0, rel1 |-> acc.rel1,
                ext0 |-> acc.ext0, ext1 |-> acc.ext1,
                infinityY |-> infinityY])
    /\ UNCHANGED tunVars
    /\ UNCHANGED <<mode, points, centers, use_squared, engine, ci, st, dgms,
                   infinity_cap, infinityY, acc, built, engineLog>>

\* ================================================================ src/app.py
Threads == {1, 2}

\* tunnel_process and tunnel_process.poll() is None
Running == tunnel_process # 0 /\ tunnel_process \in alive

\* variant: no mutual exclusion
LockIgnored == TRUE

\* with tunnel_lock: blocks until the lock is free
LockFree == tunnel_lock = 0

\* The state once startup() has run: with both credentials and a key file
\* written, start_tunnel() has spawned the first ssh (which may have exited
\* since, or Popen may have raised); otherwise nothing was spawned.
TunnelInit ==
    /\ G5K_USER \in BOOLEAN
    /\ key_file_path \in (IF G5K_USER THEN BOOLEAN ELSE {FALSE})
    /\ \/ /\ key_file_path
          /\ tunnel_process = 1 /\ spawned = 1
          /\ alive \in {{1}, {}}
       \/ /\ tunnel_process = 0 /\ spawned = 0
          /\ alive = {}
    /\ tunnel_lock = 0
    /\ tpc = [t \in Threads |-> "idle"]
    /\ ctx = [t \in Threads |-> "none"]

\* where a thread goes when ensure_tunnel / start_tunnel returns ok
AfterTunnel(t, ok) ==
    IF ctx[t] = "proxy" /\ ok THEN "request" ELSE "idle"

\* route '/': index() calls ensure_tunnel()
T_Index(t) ==
    /\ tpc[t] = "idle"
    /\ tpc' = [tpc EXCEPT ![t] = "e_lock"]
    /\ ctx' = [ctx EXCEPT ![t] = "index"]
    /\ UNCHANGED <<tunnel_process, tunnel_lock, key_file_path, G5K_USER, alive, spawned>>
    /\ UNCHANGED reqVars

\* routes '/health', '/persistence', '/vineyard': proxy_request() calls
\* ensure_tunnel()
T_Proxy(t) ==
    /\ tpc[t] = "idle"
    /\ tpc' = [tpc EXCEPT ![t] = "e_lock"]
    /\ ctx' = [ctx EXCEPT ![t] = "proxy"]
    /\ UNCHANGED <<tunnel_process, tunnel_lock, key_file_path, G5K_USER, alive, spawned>>
    /\ UNCHANGED reqVars

\* ensure_tunnel: with tunnel_lock
E_Acquire(t) ==
    /\ tpc[t] = "e_lock"
    /\ LockFree
    /\ tunnel_lock' = t
    /\ tpc' = [tpc EXCEPT ![t] = "e_check"]
    /\ UNCHANGED <<tunnel_process, key_file_path, G5K_USER, alive, spawned, ctx>>
    /\ UNCHANGED reqVars

\* ensure_tunnel: the check under the lock; the lock is released on both
\* ways out, and start_tunnel() is called without it
E_Check(t) ==
    /\ tpc[t] = "e_check"
    /\ tunnel_lock' = 0
    /\ tpc' = [tpc EXCEPT ![t] = IF Running THEN AfterTunnel(t, TRUE) ELSE "s_lock"]
    /\ UNCHANGED <<tunnel_process, key_file_path, G5K_USER, alive, spawned, ctx>>
    /\ UNCHANGED reqVars

\* start_tunnel: with tunnel_lock
S_Acquire(t) ==
    /\ tpc[t] = "s_lock"
    /\ LockFree
    /\ tunnel_lock' = t
    /\ tpc' = [tpc EXCEPT ![t] = "s_check"]
    /\ UNCHANGED <<tunnel_process, key_file_path, G5K_USER, alive, spawned, ctx>>
    /\ UNCHANGED reqVars

\* start_tunnel: already running -> True; no key file or no user -> False;
\* otherwise go on to Popen
S_Check(t) ==
    /\ tpc[t] = "s_check"
    /\ IF Running
       THEN /\ tunnel_lock' = 0
            /\ tpc' = [tpc EXCEPT ![t] = AfterTunnel(t, TRUE)]
       ELSE IF ~key_file_path \/ ~G5K_USER
       THEN /\ tunnel_lock' = 0
            /\ tpc' = [tpc EXCEPT ![t] = AfterTunnel(t, FALSE)]
       ELSE /\ tunnel_lock' = tunnel_lock
            /\ tpc' = [tpc EXCEPT ![t] = "s_popen"]
    /\ UNCHANGED <<tunnel_process, key_file_path, G5K_USER, alive, spawned, ctx>>
    /\ UNCHANGED reqVars

\* start_tunnel: tunnel_process = subprocess.Popen(cmd, ...)
S_Popen(t) ==
    /\ tpc[t] = "s_popen"
    /\ spawned < MaxSpawns
    /\ spawned' = spawned + 1
    /\ tunnel_process' = spawned + 1
    /\ alive' = alive \cup {spawned + 1}
    /\ tpc' = [tpc EXCEPT ![t] = "s_sleep"]
    /\ UNCHANGED <<tunnel_lock, key_file_path, G5K_USER, ctx>>
    /\ UNCHANGED reqVars

\* start_tunnel: Popen raises; the except clause returns False
S_PopenRaises(t) ==
    /\ tpc[t] = "s_popen"
    /\ tunnel_lock' = 0
    /\ tpc' = [tpc EXCEPT ![t] = AfterTunnel(t, FALSE)]
    /\ UNCHANGED <<tunnel_process, key_file_path, G5K_USER, alive, spawned, ctx>>
    /\ UNCHANGED reqVars

\* start_tunnel: after time.sleep(3), poll() decides the result
S_Poll(t) ==
    /\ tpc[t] = "s_sleep"
    /\ tunnel_lock' = 0
    /\ tpc' = [tpc EXCEPT ![t] = AfterTunnel(t, tunnel_process \in alive)]
    /\ UNCHANGED <<tunnel_process, key_file_path, G5K_USER, alive, spawned, ctx>>
    /\ UNCHANGED reqVars

\* proxy_request: the forwarded request answers, times out or fails otherwise
R_Answered(t) ==
    /\ tpc[t] = "request"
    /\ tpc' = [tpc EXCEPT ![t] = "idle"]
    /\ UNCHANGED <<tunnel_process, tunnel_lock, key_file_path, G5K_USER, alive,
                   spawned, ctx>>
    /\ UNCHANGED reqVars

\* proxy_request: ConnectionError -> start_tunnel(), then 503
R_ConnectionError(t) ==
    /\ tpc[t] = "request"
    /\ tpc' = [tpc EXCEPT ![t] = "s_lock"]
    /\ ctx' = [ctx EXCEPT ![t] = "restart"]
    /\ UNCHANGED <<tunnel_process, tunnel_lock, key_file_path, G5K_USER, alive, spawned>>
    /\ UNCHANGED reqVars

\* the environment: an ssh process exits on its own at any time
ProcessExits(p) ==
    /\ p \in alive
    /\ alive' = alive \ {p}
    /\ UNCHANGED <<tunnel_process, tunnel_lock, key_file_path, G5K_USER, spawned,
                   tpc, ctx>>
    /\ UNCHANGED reqVars

\* the request handler is not running in the tunnel specification
RequestIdle ==
    /\ mode = "single" /\ points = <<>> /\ centers = <<>> /\ use_squared = TRUE
    /\ engine = [essential |-> "fin", loop |-> "ext", fault |-> "none"]
    /\ pc = "done" /\ ci = 0 /\ st = EmptyTree /\ dgms = <<>>
    /\ infinity_cap = 0 /\ infinityY = 0 /\ acc = EmptyBuckets
    /\ response = NoResponse /\ built = 0 /\ engineLog = <<>>

\* the proxy is not running in the request specifications
TunnelIdle ==
    /\ tunnel_process = 0 /\ tunnel_lock = 0
    /\ key_file_path = FALSE /\ G5K_USER = FALSE
    /\ alive = {} /\ spawned = 0
    /\ tpc = [t \in Threads |-> "idle"]
    /\ ctx = [t \in Threads |-> "none"]

vars == <<reqVars, tunVars>>

Init == RequestInit(Behaviours) /\ TunnelIdle

Next ==
    \/ P_Reject \/ P_Prepare \/ P_Build \/ P_Engine \/ P_EngineRaises \/ P_Respond
    \/ V_Reject \/ V_NoCenters \/ V_Prepare \/ V_Build \/ V_Engine \/ V_EngineRaises
    \/ V_Process \/ V_Respond

Spec == Init /\ [][Next]_vars

\* the same handlers, with an engine that breaks its contract
InitMalformed == RequestInit(FaultyBehaviours) /\ TunnelIdle

SpecMalformed == InitMalformed /\ [][Next]_vars

InitTunnel == TunnelInit /\ RequestIdle

NextTunnel ==
    \/ \E t \in Threads :
        \/ T_Index(t) \/ T_Proxy(t)
        \/ E_Acquire(t) \/ E_Check(t)
        \/ S_Acquire(t) \/ S_Check(t) \/ S_Popen(t) \/ S_PopenRaises(t) \/ S_Poll(t)
        \/ R_Answered(t) \/ R_ConnectionError(t)
    \/ \E p \in 1..MaxSpawns : ProcessExits(p)

SpecTunnel == InitTunnel /\ [][NextTunnel]_vars

\* ================================================================== claims
\* the distances the complex in st was built from (st is fresh at these pcs)
Fresh == pc \in {"engine", "aggregate", "process"}
BuiltFrom == IF mode = "single" THEN distances(points, centers[1], use_squared)
             ELSE distances(points, centers[ci + 1], use_squared)
Ok == response.status = 200
ElemsOf(seq) == {seq[i] : i \in DOMAIN seq}
Entries(buckets) == UNION {ElemsOf(buckets[b]) : b \in BucketNames}
CountEntries(buckets) ==
    Len(buckets.ord0) + Len(buckets.ord1) + Len(buckets.rel0)
    + Len(buckets.rel1) + Len(buckets.ext0) + Len(buckets.ext1)
CountClasses(d) == Len(d[1]) + Len(d[2]) + Len(d[3]) + Len(d[4])
RECURSIVE CountLogged(_)
CountLogged(log) ==
    IF log = <<>> THEN 0 ELSE CountClasses(Head(log).dgms) + CountLogged(Tail(log))

\* C1: every edge of the complex build_simplex_tree returns has as filtration
\* value the larger of the distances of its two endpoints, which are the
\* filtration values of these vertices, so it is below neither of them.
C1_EdgeFiltrationIsMax ==
    Fresh =>
        \A e \in Edges(st) : \A v1, v2 \in e :
            v1 # v2 =>
                /\ st[{v1}] = BuiltFrom[v1] /\ st[{v2}] = BuiltFrom[v2]
                /\ st[e] = (IF st[{v1}] >= st[{v2}] THEN st[{v1}] ELSE st[{v2}])
                /\ st[e] >= st[{v1}] /\ st[e] >= st[{v2}]

C1_Witness ==
    /\ Fresh
    /\ \E e \in Edges(st) : \E v1, v2 \in e : st[{v1}] < st[{v2}] /\ st[e] = st[{v2}]

\* the edges of the complex between points of one curve group
GroupEdges(indices) == {e \in Edges(st) : e \subseteq ElemsOf(indices)}
CyclicPairs(indices) ==
    {{indices[j], indices[(j % Len(indices)) + 1]} : j \in DOMAIN indices}

\* C6 (as claimed): a curve group of m >= 2 points contributes exactly m
\* distinct edges, and a group of one point none.
C6_Original ==
    Fresh =>
        \A g \in ElemsOf(curve_groups_of(points)) :
            LET m == Len(g.indices) IN
            /\ m >= 2 => Cardinality(GroupEdges(g.indices)) = m
            /\ m = 1 => GroupEdges(g.indices) = {}

\* C6 (amended): a curve group of m >= 3 points contributes exactly m distinct
\* edges, its cyclic pairs; a group of 2 points contributes one edge (inserted
\* twice); a group of one point contributes none; no edge joins two groups.
C6_EdgesPerCurve ==
    Fresh =>
        /\ \A g \in ElemsOf(curve_groups_of(points)) :
            LET m == Len(g.indices) IN
            /\ m >= 3 => /\ Cardinality(GroupEdges(g.indices)) = m
                         /\ GroupEdges(g.indices) = CyclicPairs(g.indices)
            /\ m = 2 => GroupEdges(g.indices) = {{g.indices[1], g.indices[2]}}
            /\ m = 1 => GroupEdges(g.indices) = {}
        /\ Edges(st) = UNION {GroupEdges(g.indices) : g \in ElemsOf(curve_groups_of(points))}

C6_Witness ==
    /\ Fresh
    /\ \E g \in ElemsOf(curve_groups_of(points)) :
          Len(g.indices) >= 3 /\ Cardinality(GroupEdges(g.indices)) = Len(g.indices)

\* C2: a successful response holds, over its six buckets, exactly as many
\* entries as the engine reported classes over its four lists, summed over
\* the centers in vineyard mode.
C2_NoClassLost ==
    Ok => CountEntries(response) = CountLogged(engineLog)

C2_Witness ==
    /\ Ok /\ mode = "vineyard" /\ Len(engineLog) = 2
    /\ CountEntries(response) = 4
    /\ response.ext1 # <<>> /\ response.ord0 # <<>>

\* C4: a request with fewer than 3 points builds no complex, never invokes
\* the engine, and its only response is the 400.
C4_TooFewPointsRejected ==
    n_points < 3 =>
        /\ built = 0 /\ engineLog = <<>>
        /\ response.status \in {0, 400}
        /\ pc \in {"recv", "done"}
        /\ pc = "done" => response.status = 400

C4_Witness ==
    /\ n_points = 2 /\ pc = "done" /\ response.status = 400 /\ mode = "vineyard"

\* the classes the engine reported that went to bucket b, in visiting order
ClassesOf(d, b) ==
    SelectSeq(Enumerated(d), LAMBDA it : BucketOf(it.dgm_idx, it.cls.dim) = b)

\* C3 (as claimed): every reported death is at most the cap, and a death
\* equals the cap exactly when the engine reported it infinite (the
\* isInfinite flag in vineyard mode), also when every distance is 0.
C3_DeathAtCapIffInfinite ==
    Ok =>
        IF mode = "vineyard"
        THEN \A e \in Entries(response) :
                /\ FloatLE(e.death, Fin(response.infinityY))
                /\ (e.death = Fin(response.infinityY)) <=> e.isInfinite
        ELSE \A b \in BucketNames : \A i \in DOMAIN response[b] :
                /\ FloatLE(response[b][i][2], Fin((response.r_max * 150) \div 100))
                /\ (response[b][i][2] = Fin((response.r_max * 150) \div 100))
                       <=> isinf(ClassesOf(dgms, b)[i].cls.death)

\* the single-center distances of center c (0-based) of the request
SingleDist(c) == distances(points, centers[c + 1], use_squared)
TaggedPairs(bucket, c, single_cap) ==
    LET mine == SelectSeq(bucket, LAMBDA e : e.centerIdx = c)
    IN  [i \in DOMAIN mine |->
            <<mine[i].birth,
              IF mine[i].isInfinite THEN Fin(single_cap) ELSE mine[i].death>>]

\* C5: a successful vineyard response over k centers has entries of exactly
\* the center indices 0..k-1, and for each center the entries tagged with it
\* are, bucket by bucket and in order, what compute_persistence returns for
\* that center alone (the same complex handed to the engine, the same pairs),
\* but for the infinite deaths, which carry infinityY and not r_max * 1.5.
C5_VineyardMatchesSingle ==
    (Ok /\ mode = "vineyard") =>
        /\ {e.centerIdx : e \in Entries(response)} = 0..(num_centers - 1)
        /\ \A c \in 0..(num_centers - 1) :
            LET single_cap == (ArrMax(SingleDist(c)) * 150) \div 100
                single == process_extended_persistence(engineLog[c + 1].dgms, single_cap)
            IN  /\ engineLog[c + 1].st =
                       build_simplex_tree(n_points, SingleDist(c), curve_groups_of(points))
                /\ \A b \in BucketNames :
                       TaggedPairs(response[b], c, single_cap) = single[b]
                /\ \A e \in Entries(response) :
                       (e.centerIdx = c /\ e.isInfinite) => e.death = Fin(response.infinityY)

C5_Witness ==
    /\ Ok /\ mode = "vineyard" /\ num_centers = 2
    /\ centers[1] # centers[2]
    /\ \E i, j \in DOMAIN points : points[i].x # points[j].x
    /\ \E e, f \in Entries(response) : e.centerIdx = 0 /\ f.centerIdx = 1

\* the largest distance over all centers and all points
GlobalMax ==
    LET rows == [c \in 0..(num_centers - 1) |-> SingleDist(c)]
        all == {rows[c][i] : c \in 0..(num_centers - 1), i \in 0..(n_points - 1)}
    IN  CHOOSE m \in all : \A d \in all : d <= m

\* C7: in vineyard mode, from the moment the loop starts, infinityY is 1.15
\* times the largest distance over all centers and points and stays so; every
\* entry flagged isInfinite, of whatever center, has it as its death, and it
\* is the infinityY returned.
C7_OneGlobalCap ==
    (mode = "vineyard" /\ (pc \in {"loop", "engine", "process"} \/ Ok)) =>
        /\ infinityY = (GlobalMax * 115) \div 100
        /\ \A e \in Entries(acc) : e.isInfinite => e.death = Fin(infinityY)
        /\ Ok => /\ response.infinityY = infinityY
                 /\ \A e \in Entries(response) : e.isInfinite => e.death = Fin(infinityY)

C7_Witness ==
    /\ mode = "vineyard" /\ Ok /\ num_centers = 2
    /\ ArrMax(SingleDist(0)) # ArrMax(SingleDist(1))
    /\ \E e, f \in Entries(response) :
          /\ e.centerIdx = 0 /\ f.centerIdx = 1
          /\ e.isInfinite /\ f.isInfinite
          /\ e.death = f.death

WellFormed(cls) == cls.dim \in {0, 1} /\ ~isnan(cls.birth) /\ ~isnan(cls.death)
ContractBroken ==
    \E k \in DOMAIN engineLog : \E l \in 1..4 :
        \E c \in DOMAIN engineLog[k].dgms[l] : ~WellFormed(engineLog[k].dgms[l][c])

\* C8 (as claimed): a request during which the engine returned a class of a
\* dimension other than 0 and 1, or with a NaN birth or death, ends in an
\* error response.
C8_MalformedResultIsError ==
    (pc = "done" /\ ContractBroken) => response.status = 500

\* C9: a vineyard request in which the engine fails for center ci answers
\* with the error (and the trace) only, whatever was accumulated for the
\* centers before ci; the centers from ci on are not processed and nothing
\* follows the response.
C9_NoPartialResults ==
    (mode = "vineyard" /\ response.status = 500) =>
        /\ DOMAIN response = {"status", "error", "trace"}
        /\ pc = "done"
        /\ Len(engineLog) = ci
        /\ num_centers > 0 => built = ci + 1
        /\ ~ENABLED Next

C9_Witness ==
    /\ mode = "vineyard" /\ response.status = 500
    /\ ci = 1 /\ Entries(acc) # {}

\* C10: at most one ssh process spawned by the proxy is alive, and it is the
\* one recorded in tunnel_process; a thread about to spawn holds tunnel_lock
\* and the process recorded before is absent or has exited.
C10_OneLiveTunnel ==
    /\ Cardinality(alive) <= 1
    /\ alive \subseteq {tunnel_process}
    /\ \A t \in Threads :
          tpc[t] \in {"s_check", "s_popen", "s_sleep"} => tunnel_lock = t
    /\ \A t \in Threads :
          tpc[t] = "s_popen" => (tunnel_process = 0 \/ tunnel_process \notin alive)

C10_Witness ==
    /\ spawned >= 2 /\ alive = {tunnel_process}
    /\ \E t, u \in Threads : tpc[t] = "s_sleep" /\ tpc[u] = "s_lock"
====
